---- MODULE Spec2Model ----
(***************************************************************************)
(* HebbianTrainer of pytorch_hebbian/trainers.py: the layer registry built *)
(* by __init__, the replay of _prepare_data, the per-batch handler _update *)
(* and the epoch loop started by Trainer.run.                              *)
(*                                                                         *)
(* Tensors are abstracted to integers: a batch is one integer, a layer's   *)
(* weight is one integer.  Reshapes (view) and patch extraction carry     *)
(* shape only and have no counterpart on scalars.  Python positions are    *)
(* 0-based (the idx of a record); TLA+ sequences are 1-based, so the layer *)
(* at Python position i is kinds[i + 1].                                   *)
(***************************************************************************)
EXTENDS Integers, Sequences, FiniteSets, TLC

\* ---- bounds of the model -------------------------------------------------
NumLayers == 3
MaxInput == 2
MaxCalls == 2
MaxEpochs == 2
MaxBatches == 2
MaxEvalEvery == 2

\* ---- the model handed to the trainer -------------------------------------
AllNames == <<"a", "b", "c", "d", "e", "f">>
Names == SubSeq(AllNames, 1, NumLayers)
NameSet == {Names[p] : p \in 1..NumLayers}
Kinds == {"Linear", "Conv2d", "Other"}
Inputs == 1..MaxInput
RuleObjs == {"zero", "toy"}

NameIndex(name) == CHOOSE p \in 1..NumLayers : Names[p] = name

\* weights the model has once the trainer is constructed
InitWeight == [p \in 1..NumLayers |-> p + 1]

\* ---- external collaborators ----------------------------------------------
\* scale the optimizer applies to a delta
LearningRate == 2

\* optimizer.local_step(d_p, layer_name=name): the named layer's weight, in place
LocalStep(w, d, name) == [w EXCEPT ![NameIndex(name)] = @ + LearningRate * d]

\* rule.update(inputs, weights): "zero" is the no-op rule, "toy" a deterministic
\* local rule that never returns zero
RuleUpdate(rule, x, w) == IF rule = "zero" THEN 0 ELSE IF x > w THEN 1 ELSE -1

\* lyr(x): the forward transformation of one layer
Forward(kind, w, x) == IF kind = "Other" THEN x + 1 ELSE w * x

\* ---- HebbianTrainer.__init__: the trainable layers -----------------------
\* faulty variant: a negative stop keeps the whole list
SliceEndNoCutoff(n, stop) == IF stop < 0 THEN n ELSE IF stop < n THEN stop ELSE n

\* list(...)[:stop] keeps the positions 0 .. SliceEnd - 1
SliceEnd(n, stop) ==
    IF stop < 0 THEN (IF n + stop > 0 THEN n + stop ELSE 0)
    ELSE IF stop < n THEN stop ELSE n

\* faulty variant: freeze_layers is not consulted
AdmitsFrozen(kind, name, freeze) == kind = "Linear" \/ kind = "Conv2d"

\* type(layer) == Linear or type(layer) == Conv2d, and name not in freeze_layers

Admits(kind, name, freeze) ==
    (kind = "Linear" \/ kind = "Conv2d") /\ name \notin freeze

\* faulty variant: idx counts the records, not the model's layers
RECURSIVE ScanLayersRenumbered(_, _, _, _, _)
ScanLayersRenumbered(ks, freeze, end, i, acc) ==
    IF i > end THEN acc
    ELSE ScanLayersRenumbered(ks, freeze, end, i + 1,
            IF Admits(ks[i], Names[i], freeze)
            THEN Append(acc, [idx |-> Len(acc), name |-> Names[i], layer |-> i])
            ELSE acc)

\* for idx, (name, layer) in enumerate(children[:supervised_from]): append
\* Layer(idx, name, layer); the layer object is identified by its position
RECURSIVE ScanLayers(_, _, _, _, _)
ScanLayers(ks, freeze, end, i, acc) ==
    IF i > end THEN acc
    ELSE ScanLayers(ks, freeze, end, i + 1,
            IF Admits(ks[i], Names[i], freeze)
            THEN Append(acc, [idx |-> i - 1, name |-> Names[i], layer |-> i])
            ELSE acc)

IdentifyLayers(ks, sf, freeze) ==
    ScanLayers(ks, freeze, SliceEnd(Len(ks), sf), 1, <<>>)

\* ---- HebbianTrainer.__init__: init_layers --------------------------------
\* a learning rule argument: one rule object, or a dict from layer names to
\* rule objects (several names may be bound to the same object)
SingleRule(r) == [dict |-> FALSE, single |-> r, map |-> <<>>]
DictRule(m) == [dict |-> TRUE, single |-> "zero", map |-> m]
LearningRules ==
    {SingleRule(r) : r \in RuleObjs} \cup
    UNION {{DictRule(m) : m \in [S -> RuleObjs]} : S \in SUBSET NameSet}

\* learning_rule.values(), in key order
RECURSIVE DictValues(_, _)
DictValues(m, p) ==
    IF p > NumLayers THEN <<>>
    ELSE (IF Names[p] \in DOMAIN m THEN <<m[Names[p]]>> ELSE <<>>)
         \o DictValues(m, p + 1)

RECURSIVE CountCalls(_, _)
CountCalls(vals, r) ==
    IF vals = <<>> THEN 0
    ELSE (IF Head(vals) = r THEN 1 ELSE 0) + CountCalls(Tail(vals), r)

\* faulty variant: one call per distinct rule object
InitLayersOncePerRule(lr) ==
    [r \in RuleObjs |->
        IF lr.dict THEN (IF \E k \in DOMAIN lr.map : lr.map[k] = r THEN 1 ELSE 0)
        ELSE IF lr.single = r THEN 1 ELSE 0]

\* how many times init_layers is called on each rule object
InitLayers(lr) ==
    [r \in RuleObjs |->
        IF lr.dict THEN CountCalls(DictValues(lr.map, 1), r)
        ELSE IF lr.single = r THEN 1 ELSE 0]

\* ---- HebbianTrainer._prepare_data ----------------------------------------
\* faulty variant: the target layer is applied too (layers[:layer_index + 1])
RECURSIVE ReplayInclusive(_, _, _, _, _, _)
ReplayInclusive(ks, w, x, i, layer_index, applied) ==
    IF i > layer_index + 1 THEN [x |-> x, applied |-> applied]
    ELSE ReplayInclusive(ks, w, Forward(ks[i], w[i], x), i + 1, layer_index,
                         Append(applied, i - 1))

\* for lyr in layers[:layer_index]: x = lyr(x); applied lists the Python
\* positions of the layers called, in call order
RECURSIVE Replay(_, _, _, _, _, _)
Replay(ks, w, x, i, layer_index, applied) ==
    IF i > layer_index THEN [x |-> x, applied |-> applied]
    ELSE Replay(ks, w, Forward(ks[i], w[i], x), i + 1, layer_index,
                Append(applied, i - 1))

PrepareData(inputs, ks, w, layer_index) ==
    LET r == IF layer_index = 0
             THEN [x |-> inputs, applied |-> <<>>]
             ELSE Replay(ks, w, inputs, 1, layer_index, <<>>)
    IN  [x |-> r.x, w |-> w[layer_index + 1], applied |-> r.applied,
         err |-> ks[layer_index + 1] \notin {"Linear", "Conv2d"}]

\* ---- create_hebbian_trainer._update --------------------------------------
Event(op, rec, x, d, applied) ==
    [op |-> op, idx |-> rec.idx, name |-> rec.name, x |-> x, d |-> d,
     applied |-> applied]

Reverse(s) == [k \in 1..Len(s) |-> s[Len(s) + 1 - k]]

\* faulty variant: the records are visited last to first
VisitOrderReversed(recs) == Reverse(recs)

\* for layer_index, layer_name, layer in self.layers: list order
VisitOrder(recs) == recs

\* faulty variant: every replay reads the weights of the start of the call
ReplayWeightsFrozen(current, start) == start

\* self._prepare_data(x, model, layer_index) reads the live model: the weights
\* it replays through are the current ones
ReplayWeights(current, start) == current

\* faulty variant: the delta is changed on its way to the optimizer
StepDeltaOffByOne(d) == d + 1

\* d_p.view(*layer.weight.size()): the same values in the weight's shape
StepDelta(d) == d

\* faulty variant: any layer name without a rule fails the lookup of every layer
MissingRuleUpFront(lr, name) == lr.dict /\ \E n \in NameSet : n \notin DOMAIN lr.map

\* learning_rule[layer_name] raises KeyError, which is logged and re-raised
MissingRule(lr, name) == lr.dict /\ name \notin DOMAIN lr.map

\* the loop body over self.layers, from record k on; st is the handler's
\* progress: the model weights, the calls made so far, the exception raised
RECURSIVE TrainLayers(_, _, _, _, _, _, _)
TrainLayers(recs, k, inputs, ks, lr, start, st) ==
    IF k > Len(recs) THEN st
    ELSE
      LET rec == recs[k]
          prep == PrepareData(inputs, ks, ReplayWeights(st.w, start), rec.idx)
          ePrep == Event("prepare", rec, prep.x, 0, prep.applied)
      IN  IF prep.err
          THEN [st EXCEPT !.log = Append(@, ePrep), !.raised = "TypeError"]
          ELSE IF MissingRule(lr, rec.name)
          THEN [st EXCEPT !.log = Append(@, ePrep), !.raised = "KeyError"]
          ELSE
            LET rule == IF lr.dict THEN lr.map[rec.name] ELSE lr.single
                d == RuleUpdate(rule, prep.x, prep.w)
                sd == StepDelta(d)
            IN  TrainLayers(recs, k + 1, inputs, ks, lr, start,
                    [w |-> LocalStep(st.w, sd, rec.name),
                     log |-> st.log \o <<ePrep,
                                         Event("rule", rec, prep.x, d, <<>>),
                                         Event("local_step", rec, 0, sd, <<>>)>>,
                     raised |-> "none"])

\* one call of _update(engine, batch)
UpdateCall(recs, inputs, ks, lr, w) ==
    TrainLayers(VisitOrder(recs), 1, inputs, ks, lr, w,
                [w |-> w, log |-> <<>>, raised |-> "none"])

\* ---- state ---------------------------------------------------------------
VARIABLES
    kinds,            \* kind of each layer of the model, in model order
    weights,          \* weight of each layer
    supervised_from,  \* self.supervised_from
    freeze_layers,    \* self.freeze_layers
    layers,           \* self.layers
    learning_rule,    \* self.learning_rule
    init_calls,       \* init_layers calls received by each rule object
    evaluator,        \* whether an evaluator was given
    calls,            \* number of _update calls made
    batch,            \* inputs of the last _update call
    w_before,         \* weights when the last _update call started
    log,              \* prepare / rule / local_step calls of the last _update call
    raised,           \* exception the last _update call raised
    pc,               \* engine: idle, running, epoch_completed, done, failed
    epoch,            \* engine.state.epoch
    iteration,        \* batches processed in the current epoch
    max_epochs,       \* epochs given to run
    eval_every,       \* self.eval_every
    num_batches,      \* len(train_loader)
    trace             \* batch updates and evaluator runs of the run, in order

vars == <<kinds, weights, supervised_from, freeze_layers, layers, learning_rule,
          init_calls, evaluator, calls, batch, w_before, log, raised,
          pc, epoch, iteration, max_epochs, eval_every, num_batches, trace>>

config == <<kinds, supervised_from, freeze_layers, layers, learning_rule,
            init_calls, evaluator>>
engine == <<pc, epoch, iteration, max_epochs, eval_every, num_batches, trace>>

\* the trainer right after HebbianTrainer(model, learning_rule, optimizer,
\* evaluator, supervised_from, freeze_layers)
Constructed(ks, sf, freeze, lr, ev) ==
    /\ kinds = ks
    /\ weights = InitWeight
    /\ supervised_from = sf
    /\ freeze_layers = freeze
    /\ layers = IdentifyLayers(ks, sf, freeze)
    /\ learning_rule = lr
    /\ init_calls = InitLayers(lr)
    /\ evaluator = ev
    /\ calls = 0
    /\ batch = 0
    /\ w_before = InitWeight
    /\ log = <<>>
    /\ raised = "none"
    /\ pc = "idle"
    /\ epoch = 0
    /\ iteration = 0
    /\ max_epochs = 0
    /\ eval_every = 1
    /\ num_batches = 0
    /\ trace = <<>>

Models == [1..NumLayers -> Kinds]

\* every model, cutoff and freeze list, one shared rule
InitRegistry ==
    \E ks \in Models, sf \in (0 - NumLayers - 1)..(NumLayers + 1),
       freeze \in SUBSET NameSet :
        Constructed(ks, sf, freeze, SingleRule("toy"), FALSE)

\* every model and learning rule argument; the cutoff is the default -1 or
\* the length of the model
InitRules ==
    \E ks \in Models, lr \in LearningRules :
        \E sf \in {-1, NumLayers} : Constructed(ks, sf, {}, lr, FALSE)

Init == InitRegistry \/ InitRules

\* dense models for whole runs, with and without an evaluator; the mapping
\* has a rule for the first layer only
InitRun ==
    \E lr \in {SingleRule("zero"), SingleRule("toy"),
                DictRule([n \in {Names[1]} |-> "toy"])},
       sf \in {1, 2}, ev \in BOOLEAN :
        Constructed([p \in 1..NumLayers |-> "Linear"], sf, {}, lr, ev)

\* the effect of one _update call on the model and on the call record
DoUpdate(res, x) ==
    /\ weights' = res.w
    /\ log' = res.log
    /\ raised' = res.raised
    /\ w_before' = weights
    /\ batch' = x
    /\ calls' = calls + 1

\* the per-batch entry point called directly
Update ==
    /\ calls < MaxCalls
    /\ \E x \in Inputs :
        DoUpdate(UpdateCall(layers, x, kinds, learning_rule, weights), x)
    /\ UNCHANGED <<config, engine>>

Next == Update

Spec == Init /\ [][Next]_vars

\* ---- Trainer.run and the engine's epoch loop -----------------------------
TraceEvent(op, e) == [op |-> op, epoch |-> e]

\* faulty variant: epochs counted from 0
EvalDueZeroBased(ev, e, every) == ev /\ (e - 1) % every = 0

\* _register_handlers: the handler exists iff an evaluator was given, and
\* runs it when engine.state.epoch % self.eval_every == 0
EvalDue(ev, e, every) == ev /\ e % every = 0

\* run(train_loader, val_loader, epochs, eval_every): engine.run starts epoch 1
Run ==
    /\ pc = "idle"
    /\ \E epochs \in 1..MaxEpochs, every \in 1..MaxEvalEvery,
          nb \in 1..MaxBatches :
        /\ max_epochs' = epochs
        /\ eval_every' = every
        /\ num_batches' = nb
    /\ pc' = "running"
    /\ epoch' = 1
    /\ iteration' = 0
    /\ UNCHANGED <<config, weights, calls, batch, w_before, log, raised, trace>>

\* the engine hands the next batch to _update; an exception ends the run
Iteration ==
    /\ pc = "running"
    /\ \E x \in Inputs :
        LET res == UpdateCall(layers, x, kinds, learning_rule, weights)
        IN  /\ DoUpdate(res, x)
            /\ trace' = Append(trace, TraceEvent("update", epoch))
            /\ iteration' = iteration + 1
            /\ pc' = IF res.raised # "none" THEN "failed"
                     ELSE IF iteration + 1 = num_batches THEN "epoch_completed"
                     ELSE "running"
    /\ UNCHANGED <<config, epoch, max_epochs, eval_every, num_batches>>

\* EPOCH_COMPLETED: log_validation_results, then the next epoch or the end
EpochCompleted ==
    /\ pc = "epoch_completed"
    /\ trace' = IF EvalDue(evaluator, epoch, eval_every)
                THEN Append(trace, TraceEvent("eval", epoch))
                ELSE trace
    /\ IF epoch < max_epochs
       THEN pc' = "running" /\ epoch' = epoch + 1 /\ iteration' = 0
       ELSE pc' = "done" /\ epoch' = epoch /\ iteration' = iteration
    /\ UNCHANGED <<config, weights, calls, batch, w_before, log, raised,
                   max_epochs, eval_every, num_batches>>

NextRun == Run \/ Iteration \/ EpochCompleted

SpecRun == InitRun /\ [][NextRun]_vars

\* ---- properties -----------------------------------------------------------
Recs == 1..Len(layers)
Pos(k) == layers[k].idx + 1
AllDense == \A p \in 1..NumLayers : kinds[p] = "Linear"
PrepareEvents == {i \in DOMAIN log : log[i].op = "prepare"}
StepEvents == {i \in DOMAIN log : log[i].op = "local_step"}
StepsOf(name) == {i \in StepEvents : log[i].name = name}
RulesConfigured ==
    IF learning_rule.dict
    THEN {learning_rule.map[n] : n \in DOMAIN learning_rule.map}
    ELSE {learning_rule.single}

\* C1 as stated: with a negative supervised_from (in particular -1), an empty
\* freeze list and a dense-only model, every layer of the model gets a record,
\* in model order, with its own name and index.
C1_NegativeMeansNoCutoff ==
    (supervised_from < 0 /\ freeze_layers = {} /\ AllDense)
        => layers = [p \in 1..NumLayers |->
                        [idx |-> p - 1, name |-> Names[p], layer |-> p]]

\* C1 amended: with supervised_from = -m < 0, an empty freeze list and a
\* dense-only model of n layers, the records are exactly the first n - m layers
\* (none when m >= n), in model order, with matching names and indices; with
\* -1 the last layer of the model has no record.
C1_NegativeCountsFromEnd ==
    (supervised_from < 0 /\ freeze_layers = {} /\ AllDense)
        => /\ Len(layers) = (IF NumLayers + supervised_from > 0
                             THEN NumLayers + supervised_from ELSE 0)
           /\ \A k \in Recs :
                layers[k] = [idx |-> k - 1, name |-> Names[k], layer |-> k]
           /\ (supervised_from = -1 =>
                \A k \in Recs : layers[k].name # Names[NumLayers])

C1_Witness ==
    /\ supervised_from = -1 /\ freeze_layers = {} /\ AllDense
    /\ Len(layers) = NumLayers - 1
    /\ calls > 0

\* C5: for supervised_from >= 0 a layer has a record iff its position is below
\* supervised_from, its kind is Linear or Conv2d and its name is not frozen; it
\* then has exactly one; no record's name is frozen; supervised_from = 0 or an
\* all-frozen model gives the empty list.
C5_SelectionRule ==
    supervised_from >= 0 =>
        /\ \A p \in 1..NumLayers :
            (\E k \in Recs : layers[k].name = Names[p])
                <=> (/\ p - 1 < supervised_from
                     /\ kinds[p] \in {"Linear", "Conv2d"}
                     /\ Names[p] \notin freeze_layers)
        /\ \A j, k \in Recs : layers[j].name = layers[k].name => j = k
        /\ \A k \in Recs : layers[k].name \notin freeze_layers
        /\ (supervised_from = 0 \/ freeze_layers = NameSet) => layers = <<>>

C5_Witness ==
    /\ supervised_from = NumLayers - 1
    /\ kinds[NumLayers] = "Linear"
    /\ Names[NumLayers] \notin freeze_layers
    /\ \E p \in 1..NumLayers - 1 :
        kinds[p] = "Conv2d" /\ Names[p] \in freeze_layers
    /\ Len(layers) = 1
    /\ layers[1].name = Names[1]
    /\ calls > 0

\* the record invariant of C6: each record's idx is the position of its layer in the
\* whole model, where the recorded name is found, idx strictly increases along
\* the list, and no batch update changes the list.
C6_RecordState ==
    /\ \A k \in Recs :
        /\ layers[k].layer = layers[k].idx + 1
        /\ layers[k].idx \in 0..NumLayers - 1
        /\ Names[layers[k].idx + 1] = layers[k].name
    /\ \A j, k \in Recs : j < k => layers[j].idx < layers[k].idx

\* C6: the record state above holds in every state reached, and no step of the
\* trainer (no batch update) changes self.layers.
C6_RecordsKeepModelIndex == [](C6_RecordState) /\ [][layers' = layers]_vars

C6_Witness ==
    /\ calls > 0
    /\ supervised_from < 0
    /\ Len(layers) >= 1
    /\ layers[1].idx = 1

\* C7 as stated: every configured rule object has received exactly one
\* init_layers call, also when it is bound to several layer names.
C7_OncePerRuleObject == \A r \in RulesConfigured : init_calls[r] = 1

C7_CallCounts ==
    \A r \in RuleObjs :
        init_calls[r] =
            IF learning_rule.dict
            THEN Cardinality({n \in DOMAIN learning_rule.map :
                                learning_rule.map[n] = r})
            ELSE IF learning_rule.single = r THEN 1 ELSE 0

\* C7 amended: construction calls init_layers once for a single shared rule and
\* once per entry of a per-layer mapping, so a rule object bound to m layer
\* names receives m calls; batch updates never call it.
C7_OncePerMappingEntry ==
    [](C7_CallCounts) /\ [][init_calls' = init_calls]_vars

C7_Witness ==
    /\ learning_rule.dict
    /\ \E m, n \in DOMAIN learning_rule.map :
        m # n /\ learning_rule.map[m] = "toy" /\ learning_rule.map[n] = "toy"
    /\ init_calls["toy"] >= 2
    /\ calls > 0

\* the k-th record's layer was trained before the layer at Python position idx
\* was prepared in the last call
TrainedBefore(p, idx) == \E k \in Recs : Pos(k) = p /\ layers[k].idx < idx

\* weights the model held when the layer at position idx was prepared: the
\* updated ones of the records before it, the start-of-batch ones elsewhere
WeightsAt(idx) ==
    [p \in 1..NumLayers |->
        IF TrainedBefore(p, idx) THEN weights[p] ELSE w_before[p]]

MissingRecs ==
    {k \in Recs : learning_rule.dict /\ layers[k].name \notin DOMAIN learning_rule.map}
FirstMissing == CHOOSE k \in MissingRecs : \A j \in MissingRecs : k <= j

\* C3: when the rule mapping lacks an entry for a trainable layer, the call
\* raises the KeyError; with k the first such record, every record before k has
\* exactly one local_step whose scaled delta is the whole change of its weight,
\* and record k and all later ones keep their start-of-call weights.
C3_PartialFailure ==
    (calls > 0 /\ MissingRecs # {}) =>
        /\ raised = "KeyError"
        /\ \A j \in Recs :
            IF j < FirstMissing
            THEN /\ Cardinality(StepsOf(layers[j].name)) = 1
                 /\ \A i \in StepsOf(layers[j].name) :
                        /\ log[i - 1].op = "rule"
                        /\ log[i - 1].name = layers[j].name
                        /\ log[i].d = log[i - 1].d
                        /\ weights[Pos(j)] = w_before[Pos(j)] + LearningRate * log[i].d
            ELSE /\ StepsOf(layers[j].name) = {}
                 /\ weights[Pos(j)] = w_before[Pos(j)]

C3_Witness ==
    /\ raised = "KeyError"
    /\ Len(layers) >= 2
    /\ FirstMissing = 2
    /\ weights[Pos(1)] # w_before[Pos(1)]
    /\ weights[Pos(2)] = w_before[Pos(2)]

\* C4: when every configured rule is the no-op rule, the weights of all layers
\* equal the ones they had before the first update call, after any number of
\* calls.
C4_NoOpRuleKeepsWeights ==
    (\A r \in RulesConfigured : r = "zero") => weights = InitWeight

C4_Witness ==
    /\ calls >= 2
    /\ RulesConfigured = {"zero"}
    /\ Len(layers) >= 2
    /\ raised = "none"
    /\ Len(log) = 3 * Len(layers)

\* C8: every prepare of a call applied exactly the layers at positions
\* 0 .. layer_index - 1, in model order, each once, whatever their kind and
\* whether frozen; for layer_index 0 the input is the batch itself; a Linear
\* layer right after a leading Conv2d gets the Conv2d's output on the batch.
C8_ReplayPrefix ==
    \A i \in PrepareEvents :
        /\ log[i].applied = [q \in 1..log[i].idx |-> q - 1]
        /\ log[i].idx = 0 => log[i].x = batch
        /\ (log[i].idx = 1 /\ kinds[1] = "Conv2d" /\ kinds[2] = "Linear")
                => log[i].x = WeightsAt(1)[1] * batch
        /\ (log[i].idx = 1 /\ kinds[1] = "Other") => log[i].x = batch + 1
        /\ log[i].idx = 2 =>
                log[i].x = Forward(kinds[2], WeightsAt(2)[2],
                                   Forward(kinds[1], WeightsAt(2)[1], batch))

C8_Witness ==
    /\ NumLayers >= 3
    /\ kinds[1] = "Conv2d" /\ kinds[2] = "Other" /\ kinds[3] = "Linear"
    /\ Names[1] \in freeze_layers
    /\ \E i \in PrepareEvents :
        /\ log[i].idx = 2
        /\ log[i].applied = <<0, 1>>
        /\ log[i].x = w_before[1] * batch + 1

\* layers the registry leaves out when supervised_from >= 0
Excluded(p) ==
    \/ Names[p] \in freeze_layers
    \/ kinds[p] \notin {"Linear", "Conv2d"}
    \/ (supervised_from >= 0 /\ p - 1 >= supervised_from)

EvalsAt(e) == {i \in DOMAIN trace : trace[i] = TraceEvent("eval", e)}
UpdatesAt(e) == {i \in DOMAIN trace : trace[i] = TraceEvent("update", e)}
EpochDone(e) == epoch > e \/ (epoch = e /\ pc = "done")

\* C10: in a run, the evaluator has run for epoch e exactly once if an
\* evaluator was given, e mod eval_every = 0 and epoch e is completed, and not
\* at all otherwise; that run comes after all num_batches updates of epoch e
\* and before every update of epoch e + 1.
C10_EvaluationHook ==
    /\ \A i \in DOMAIN trace :
        trace[i].op = "eval" => evaluator /\ trace[i].epoch \in 1..max_epochs
    /\ \A e \in 1..max_epochs :
        /\ Cardinality(EvalsAt(e)) =
            (IF evaluator /\ e % eval_every = 0 /\ EpochDone(e) THEN 1 ELSE 0)
        /\ EpochDone(e) => Cardinality(UpdatesAt(e)) = num_batches
        /\ \A i \in EvalsAt(e) :
            /\ \A j \in UpdatesAt(e) : j < i
            /\ \A j \in UpdatesAt(e + 1) : i < j

C10_Witness ==
    /\ pc = "done" /\ evaluator
    /\ max_epochs = 2 /\ eval_every = 2 /\ num_batches = 2
    /\ Len(trace) = 5
    /\ trace[5] = TraceEvent("eval", 2)

====
